---- MODULE Spec2Model ----
(***************************************************************************)
(* RAGFlowService.retrieve (src/src/services/ragflow.py) and the tool      *)
(* wrapper query_knowledge_base (src/src/agent/tools/ragflow_retriever.py) *)
(* as a state machine.  Every call is a coroutine with two suspension      *)
(* points: the awaited client.post and the awaited release of the          *)
(* httpx.AsyncClient when the `async with` block is left.                  *)
(***************************************************************************)
EXTENDS Integers, Sequences, FiniteSets, TLC

VARIABLES settings, service, calls

vars == <<settings, service, calls>>

(***************************************************************************)
(* Bounds of the model.                                                    *)
(***************************************************************************)
MaxCalls == 2

Calls == 1..MaxCalls

Queries == {"", "What is the capital of France?"}

(***************************************************************************)
(* Strings.                                                                *)
(***************************************************************************)
StartsWith(s, p) == Len(s) >= Len(p) /\ SubSeq(s, 1, Len(p)) = p

RECURSIVE rstrip(_, _)
rstrip(s, ch) ==
    IF Len(s) > 0 /\ SubSeq(s, Len(s), Len(s)) = ch
    THEN rstrip(SubSeq(s, 1, Len(s) - 1), ch)
    ELSE s

RECURSIVE lstrip(_, _)
lstrip(s, ch) ==
    IF Len(s) > 0 /\ SubSeq(s, 1, 1) = ch
    THEN lstrip(SubSeq(s, 2, Len(s)), ch)
    ELSE s

(***************************************************************************)
(* JSON documents as the backend sends them, and the Python values         *)
(* response.json() turns them into.                                        *)
(***************************************************************************)
JNull == [j |-> "null"]
JBool(b) == [j |-> "boolean", b |-> b]
JNum(n) == [j |-> "number", n |-> n]
JStr(s) == [j |-> "string", s |-> s]
JArr(items) == [j |-> "array", items |-> items]
JObj(members) == [j |-> "object", members |-> members]

PyNone == [t |-> "NoneType"]
PyBool(b) == [t |-> "bool", b |-> b]
PyInt(n) == [t |-> "int", n |-> n]
PyStr(s) == [t |-> "str", s |-> s]
PyList(items) == [t |-> "list", items |-> items]
PyDict(items) == [t |-> "dict", items |-> items]

RECURSIVE ToPython(_)
ToPython(v) ==
    CASE v.j = "null" -> PyNone
      [] v.j = "boolean" -> PyBool(v.b)
      [] v.j = "number" -> PyInt(v.n)
      [] v.j = "string" -> PyStr(v.s)
      [] v.j = "array" ->
            PyList([i \in 1..Len(v.items) |-> ToPython(v.items[i])])
      [] v.j = "object" ->
            PyDict([i \in 1..Len(v.members) |->
                       <<v.members[i][1], ToPython(v.members[i][2])>>])

\* Variant: `if choices is None` in place of `if not choices`.
Truthy_notNone(v) == v.t # "NoneType"

\* Python truth value testing, as `not choices` applies it.
Truthy(v) ==
    CASE v.t = "NoneType" -> FALSE
      [] v.t = "bool" -> v.b
      [] v.t = "int" -> v.n # 0
      [] v.t = "str" -> Len(v.s) > 0
      [] v.t = "list" -> Len(v.items) > 0
      [] v.t = "dict" -> Len(v.items) > 0

HasKey(d, k) == \E i \in 1..Len(d.items) : d.items[i][1] = k

\* A JSON object that repeats a key keeps the last value.
Lookup(d, k) ==
    LET i == CHOOSE n \in 1..Len(d.items) :
                 /\ d.items[n][1] = k
                 /\ \A m \in (n + 1)..Len(d.items) : d.items[m][1] # k
    IN  d.items[i][2]

Returned(v) == [how |-> "return", value |-> v]
Raised(e) == [how |-> "raise", exc |-> e]
Nothing == [how |-> "none"]

Exc(cls, msg) == [cls |-> cls, msg |-> msg]

\* obj.get(key, default): only a dict has the method.
PyGet(obj, key, default) ==
    IF obj.t = "dict"
    THEN Returned(IF HasKey(obj, key) THEN Lookup(obj, key) ELSE default)
    ELSE Raised(Exc("AttributeError",
                    "'" \o obj.t \o "' object has no attribute 'get'"))

\* obj[0]
PyFirst(obj) ==
    CASE obj.t = "list" ->
            IF Len(obj.items) > 0 THEN Returned(obj.items[1])
            ELSE Raised(Exc("IndexError", "list index out of range"))
      [] obj.t = "str" ->
            IF Len(obj.s) > 0 THEN Returned(PyStr(SubSeq(obj.s, 1, 1)))
            ELSE Raised(Exc("IndexError", "string index out of range"))
      [] obj.t = "dict" -> Raised(Exc("KeyError", "0"))
      [] OTHER ->
            Raised(Exc("TypeError",
                       "'" \o obj.t \o "' object is not subscriptable"))

(***************************************************************************)
(* Exceptions.  except Exception catches every class but those that derive *)
(* from BaseException alone; asyncio.CancelledError is one of the latter.  *)
(***************************************************************************)
ExceptionClasses ==
    {"HTTPStatusError", "ReadTimeout", "ConnectError", "RemoteProtocolError",
     "JSONDecodeError", "AttributeError", "KeyError", "IndexError",
     "TypeError", "OSError"}

BaseExceptionOnly == {"CancelledError"}

\* Variant: `except httpx.HTTPError` in place of `except Exception`.
IsException_httpx(e) ==
    e.cls \in {"HTTPStatusError", "ReadTimeout", "ConnectError",
               "RemoteProtocolError"}

IsException(e) == e.cls \in ExceptionClasses

Cancelled == Exc("CancelledError", "")

(***************************************************************************)
(* The process-wide settings and the singleton built from them.            *)
(***************************************************************************)
SettingsSpace ==
    [RAGFLOW_BASE_URL : {"http://rag", "http://rag//"},
     RAGFLOW_API_KEY : {"", "key"},
     RAGFLOW_CHAT_ID : {"", "chat1"}]

RAGFlowService_init(st) ==
    [base_url |-> rstrip(st.RAGFLOW_BASE_URL, "/"),
     api_key |-> st.RAGFLOW_API_KEY,
     chat_id |-> st.RAGFLOW_CHAT_ID,
     headers |-> [Authorization |-> "Bearer " \o st.RAGFLOW_API_KEY,
                  ContentType |-> "application/json"]]

\* Variant: the guard joins its two tests with `and`.
Configured_and(svc) == ~(Len(svc.api_key) = 0 /\ Len(svc.chat_id) = 0)

\* `not self.api_key or not self.chat_id` is false
Configured(svc) == ~(Len(svc.api_key) = 0 \/ Len(svc.chat_id) = 0)

NOT_CONFIGURED == "RAGFlow is not configured. Please provide API key and Chat ID."
NO_RESPONSE == "No response from RAGFlow."
STATUS_PREFIX == "Error communicating with RAGFlow: "
UNEXPECTED_PREFIX == "An unexpected error occurred while querying RAGFlow: "

\* Variant: the chat id is left out of the path.
BuildUrl_nochat(svc) == svc.base_url \o "/chats_openai/chat/completions"

BuildUrl(svc) ==
    svc.base_url \o "/chats_openai/" \o svc.chat_id \o "/chat/completions"

Payload(query) ==
    [model |-> "ragflow",
     messages |-> <<[role |-> "user", content |-> query]>>,
     stream |-> FALSE]

(***************************************************************************)
(* What one call leaves behind, in order: log events, the delegated call   *)
(* of the tool wrapper, and the use of the HTTP client.                    *)
(***************************************************************************)
LogEvent(level, event, fields) ==
    [kind |-> "log", level |-> level, event |-> event, fields |-> fields]
RetrieveCalled(query) == [kind |-> "retrieve", query |-> query]
ClientOpened == [kind |-> "client_open", timeout |-> 30]
Posted(url, headers, json) ==
    [kind |-> "post", url |-> url, headers |-> headers, json |-> json]
ClientClosed == [kind |-> "client_close"]

(***************************************************************************)
(* What the backend can do with one request.                               *)
(***************************************************************************)
Statuses == {101, 200, 201, 302, 401, 503}

IsSuccess(status) == 200 <= status /\ status <= 299

StatusText(status) ==
    CASE status = 101 -> "101 Switching Protocols"
      [] status = 200 -> "200 OK"
      [] status = 201 -> "201 Created"
      [] status = 302 -> "302 Found"
      [] status = 401 -> "401 Unauthorized"
      [] status = 503 -> "503 Service Unavailable"

ErrorType(status) ==
    CASE status \div 100 = 1 -> "Informational response"
      [] status \div 100 = 3 -> "Redirect response"
      [] status \div 100 = 4 -> "Client error"
      [] status \div 100 = 5 -> "Server error"
      [] OTHER -> "Invalid status code"

\* Variant: only 4xx and 5xx count as errors.
raise_for_status_4xx5xx(status, url) ==
    IF status < 400
    THEN [how |-> "none"]
    ELSE [how |-> "raise",
          exc |-> [cls |-> "HTTPStatusError",
                   msg |-> "HTTP error '" \o ToString(status)
                               \o "' for url '" \o url \o "'",
                   status_code |-> status]]

\* response.raise_for_status()
raise_for_status(status, url) ==
    IF IsSuccess(status)
    THEN Nothing
    ELSE Raised([cls |-> "HTTPStatusError",
                 msg |-> ErrorType(status) \o " '" \o StatusText(status)
                             \o "' for url '" \o url \o "'",
                 status_code |-> status])

\* Variant: a body that is not JSON is read as an empty object.
response_json_lenient(body) ==
    IF "raw" \in DOMAIN body
    THEN [how |-> "return", value |-> PyDict(<<>>)]
    ELSE [how |-> "return", value |-> ToPython(body.json)]

\* response.json()
response_json(body) ==
    IF "raw" \in DOMAIN body
    THEN Raised(Exc("JSONDecodeError",
                    "Expecting value: line 1 column 1 (char 0)"))
    ELSE Returned(ToPython(body.json))

\* Variant: the answer is trimmed before it is returned.
ReturnContent_stripped(content) ==
    IF content.t = "str" THEN PyStr(lstrip(rstrip(content.s, " "), " "))
    ELSE content

\* Variant: the answer passes through a buffer shared by all calls, which a
\* call that is leaving its with block has reset.
ReturnContent_shared(content) ==
    IF \E d \in DOMAIN calls : calls[d].pc = "exiting" THEN PyStr("")
    ELSE content

\* Line 60: `return content`
ReturnContent(content) == content

Step(pending, log) == [pending |-> pending, log |-> log]

\* Lines 51-60: from the parsed body to the value the with block returns.
ExtractContent(data, query) ==
    LET choices == PyGet(data, "choices", PyList(<<>>)) IN
    IF choices.how = "raise" THEN Step(choices, <<>>)
    ELSE IF ~Truthy(choices.value)
    THEN Step(Returned(PyStr(NO_RESPONSE)), <<>>)
    ELSE
    LET first == PyFirst(choices.value) IN
    IF first.how = "raise" THEN Step(first, <<>>)
    ELSE
    LET message == PyGet(first.value, "message", PyDict(<<>>)) IN
    IF message.how = "raise" THEN Step(message, <<>>)
    ELSE
    LET content == PyGet(message.value, "content", PyStr("")) IN
    IF content.how = "raise" THEN Step(content, <<>>)
    ELSE Step(Returned(ReturnContent(content.value)),
              <<LogEvent("info", "ragflow_retrieval_successful",
                         [query |-> query])>>)

\* Lines 46-60: what the awaited post brings, and what the with block makes
\* of it; the result is still to pass through the release of the client.
WithBlock(outcome, url, query) ==
    CASE outcome.kind = "timeout" -> Step(Raised(Exc("ReadTimeout", "")), <<>>)
      [] outcome.kind = "connect_error" ->
            Step(Raised(Exc("ConnectError", "All connection attempts failed")),
                 <<>>)
      [] outcome.kind = "disconnected" ->
            Step(Raised(Exc("RemoteProtocolError",
                            "Server disconnected without sending a response.")),
                 <<>>)
      [] outcome.kind = "response" ->
            LET status == raise_for_status(outcome.status, url) IN
            IF status.how = "raise" THEN Step(status, <<>>)
            ELSE
            LET data == response_json(outcome.body) IN
            IF data.how = "raise" THEN Step(data, <<>>)
            ELSE ExtractContent(data.value, query)

\* Lines 62-67: the except clauses, in their order.
ExceptClauses(pending) ==
    IF pending.how # "raise" THEN Step(pending, <<>>)
    ELSE IF pending.exc.cls = "HTTPStatusError"
    THEN Step(Returned(PyStr(STATUS_PREFIX \o pending.exc.msg)),
              <<LogEvent("error", "ragflow_api_error",
                         [status_code |-> pending.exc.status_code,
                          error |-> pending.exc.msg])>>)
    ELSE IF IsException(pending.exc)
    THEN Step(Returned(PyStr(UNEXPECTED_PREFIX \o pending.exc.msg)),
              <<LogEvent("error", "ragflow_unexpected_error",
                         [error |-> pending.exc.msg])>>)
    ELSE Step(pending, <<>>)

\* Leaving the `async with`: the release of the client can itself fail or be
\* cancelled, and what it raises replaces what the block was leaving with.
CloseOutcomes == {"ok", "error", "cancelled"}

AsyncExit(pending, closeOutcome) ==
    CASE closeOutcome = "ok" -> pending
      [] closeOutcome = "error" ->
            Raised(Exc("OSError", "[Errno 9] Bad file descriptor"))
      [] closeOutcome = "cancelled" -> Raised(Cancelled)

\* Variant: the tool returns str(result).
query_knowledge_base_return_str(result) ==
    IF result.how = "return" /\ result.value.t # "str"
    THEN [how |-> "return", value |-> PyStr(result.value.t)]
    ELSE result

\* Lines 18-19 of the tool: `result = await ...retrieve(query); return result`
query_knowledge_base_return(result) == result

(***************************************************************************)
(* The bodies a 2xx (or any) response can carry.                           *)
(***************************************************************************)
Obj1(k, v) == JObj(<<<<k, v>>>>)
Choice(content) == Obj1("message", Obj1("content", content))
ChoicesBody(choices) == [json |-> Obj1("choices", choices)]

Contents ==
    {JStr("Paris"), JStr("  Paris  "), JStr(""), JNull, JNum(42),
     JArr(<<JStr("Paris")>>), Obj1("text", JStr("Paris"))}

WellFormedBodies ==
    {ChoicesBody(JArr(<<Choice(c)>>)) : c \in Contents}
    \cup {ChoicesBody(JArr(<<Choice(JStr("Paris")), Choice(JStr("London"))>>)),
          ChoicesBody(JArr(<<JObj(<<>>)>>)),
          ChoicesBody(JArr(<<Obj1("message", JObj(<<>>))>>)),
          ChoicesBody(JArr(<<JObj(<<<<"message", Obj1("content", JStr("Rome"))>>,
                                   <<"extra_body", JArr(<<JStr("ref")>>)>>>>)>>))}

EmptyBodies ==
    {[json |-> JObj(<<>>)],
     [json |-> Obj1("id", JStr("x"))],
     ChoicesBody(JArr(<<>>))}

FalsyChoicesBodies ==
    {ChoicesBody(JNull), ChoicesBody(JStr("")), ChoicesBody(JNum(0)),
     ChoicesBody(JBool(FALSE)), ChoicesBody(JObj(<<>>))}

MalformedBodies ==
    {[raw |-> "<html>Bad Gateway</html>"],
     [raw |-> ""],
     [json |-> JArr(<<>>)],
     [json |-> JNull],
     [json |-> JStr("Paris")],
     ChoicesBody(JStr("abc")),
     ChoicesBody(JNum(5)),
     ChoicesBody(JBool(TRUE)),
     ChoicesBody(Obj1("a", JNum(1))),
     ChoicesBody(JArr(<<JNum(5)>>)),
     ChoicesBody(JArr(<<JNull>>)),
     ChoicesBody(JArr(<<Obj1("message", JNull)>>)),
     ChoicesBody(JArr(<<Obj1("message", JStr("Paris"))>>))}

Bodies == WellFormedBodies \cup EmptyBodies \cup FalsyChoicesBodies
              \cup MalformedBodies

Response(status, body) == [kind |-> "response", status |-> status, body |-> body]

TransportFailures ==
    {[kind |-> "timeout"], [kind |-> "connect_error"], [kind |-> "disconnected"]}

ErrorBody == [json |-> Obj1("choices", JArr(<<Choice(JStr("denied"))>>))]

Outcomes ==
    {Response(200, b) : b \in Bodies}
    \cup {Response(201, b) : b \in {ChoicesBody(JArr(<<Choice(JStr("Paris"))>>)),
                                    ChoicesBody(JArr(<<>>))}}
    \cup {Response(st, ErrorBody) : st \in {x \in Statuses : ~IsSuccess(x)}}
    \cup TransportFailures

NoOutcome == [kind |-> "none"]

\* The outcomes the interleaved specification draws from: one of each way
\* a call can end.
CoreOutcomes ==
    {Response(200, ChoicesBody(JArr(<<Choice(JStr("Paris"))>>))),
     Response(401, ErrorBody),
     [kind |-> "timeout"]}

(***************************************************************************)
(* One call: a caller's invocation of retrieve, directly or through the    *)
(* tool, from its start to the value or exception the caller receives.     *)
(***************************************************************************)
IdleCall ==
    [pc |-> "idle", query |-> "", viaTool |-> FALSE, outcome |-> NoOutcome,
     closeOutcome |-> "none", pending |-> Nothing, result |-> Nothing,
     toolResult |-> Nothing, trace |-> <<>>]

Init ==
    /\ settings \in SettingsSpace
    /\ service = RAGFlowService_init(settings)
    /\ calls = [c \in Calls |-> IdleCall]

\* The tool logs and delegates (lines 17-18 of the tool); retrieve runs its
\* guard and, when configured, opens the client and awaits the post.
Invoke(c, q, viaTool) ==
    /\ calls[c].pc = "idle"
    /\ LET pre == (IF viaTool
                   THEN <<LogEvent("info", "query_knowledge_base_tool_called",
                                   [query |-> q])>>
                   ELSE <<>>) \o <<RetrieveCalled(q)>>
           started == [IdleCall EXCEPT !.query = q, !.viaTool = viaTool]
       IN  IF ~Configured(service)
           THEN LET res == Returned(PyStr(NOT_CONFIGURED)) IN
                calls' = [calls EXCEPT ![c] =
                    [started EXCEPT
                       !.pc = "done",
                       !.result = res,
                       !.toolResult = IF viaTool
                                      THEN query_knowledge_base_return(res)
                                      ELSE Nothing,
                       !.trace = pre \o
                           <<LogEvent("warning", "ragflow_not_configured",
                                [api_key_set |-> Len(service.api_key) > 0,
                                 chat_id_set |-> Len(service.chat_id) > 0])>>]]
           ELSE calls' = [calls EXCEPT ![c] =
                    [started EXCEPT
                       !.pc = "awaiting_post",
                       !.trace = pre \o
                           <<ClientOpened,
                             Posted(BuildUrl(service), service.headers,
                                    Payload(q))>>]]
    /\ UNCHANGED <<settings, service>>

\* A caller that starts a call while no other call is under way.
InvokeAlone(c, q, viaTool) ==
    /\ \A d \in Calls : calls[d].pc = "idle"
    /\ Invoke(c, q, viaTool)

\* The awaited post ends: a response or a transport failure.
Respond(c, o) ==
    /\ calls[c].pc = "awaiting_post"
    /\ LET r == WithBlock(o, BuildUrl(service), calls[c].query) IN
       calls' = [calls EXCEPT ![c].pc = "exiting",
                              ![c].outcome = o,
                              ![c].pending = r.pending,
                              ![c].trace = @ \o r.log]
    /\ UNCHANGED <<settings, service>>

\* The caller cancels the task while it awaits the post.
Cancel(c) ==
    /\ calls[c].pc = "awaiting_post"
    /\ calls' = [calls EXCEPT ![c].pc = "exiting",
                              ![c].outcome = [kind |-> "cancelled"],
                              ![c].pending = Raised(Cancelled)]
    /\ UNCHANGED <<settings, service>>

\* The client is released, the except clauses run, the call ends.
Close(c, co) ==
    /\ calls[c].pc = "exiting"
    /\ LET h == ExceptClauses(AsyncExit(calls[c].pending, co)) IN
       calls' = [calls EXCEPT ![c].pc = "done",
                              ![c].closeOutcome = co,
                              ![c].pending = Nothing,
                              ![c].result = h.pending,
                              ![c].toolResult =
                                  IF calls[c].viaTool
                                  THEN query_knowledge_base_return(h.pending)
                                  ELSE Nothing,
                              ![c].trace = @ \o <<ClientClosed>> \o h.log]
    /\ UNCHANGED <<settings, service>>

\* The caller has taken the result; it may call again.
Finish(c) ==
    /\ calls[c].pc = "done"
    /\ calls' = [calls EXCEPT ![c] = IdleCall]
    /\ UNCHANGED <<settings, service>>

Next ==
    \E c \in Calls :
        \/ \E q \in Queries, viaTool \in BOOLEAN : InvokeAlone(c, q, viaTool)
        \/ \E o \in Outcomes : Respond(c, o)
        \/ Cancel(c)
        \/ \E co \in CloseOutcomes : Close(c, co)
        \/ Finish(c)

Spec == Init /\ [][Next]_vars

NextConcurrent ==
    \E c \in Calls :
        \/ \E q \in Queries, viaTool \in BOOLEAN : Invoke(c, q, viaTool)
        \/ \E o \in CoreOutcomes : Respond(c, o)
        \/ Cancel(c)
        \/ \E co \in CloseOutcomes : Close(c, co)
        \/ Finish(c)

SpecConcurrent == Init /\ [][NextConcurrent]_vars

(***************************************************************************)
(* Vocabulary of the properties.                                           *)
(***************************************************************************)
Done(c) == calls[c].pc = "done"

Started(c) == calls[c].pc # "idle"

WasCancelled(c) ==
    calls[c].outcome.kind = "cancelled" \/ calls[c].closeOutcome = "cancelled"

NormalRelease(c) == calls[c].closeOutcome = "ok"

ReturnedString(c) ==
    calls[c].result.how = "return" /\ calls[c].result.value.t = "str"

EventsOfKind(c, kind) ==
    {i \in DOMAIN calls[c].trace : calls[c].trace[i].kind = kind}

LogsNamed(c, event) ==
    {i \in DOMAIN calls[c].trace :
        /\ calls[c].trace[i].kind = "log"
        /\ calls[c].trace[i].event = event}

ErrorLogs(c) ==
    {i \in DOMAIN calls[c].trace :
        /\ calls[c].trace[i].kind = "log"
        /\ calls[c].trace[i].level = "error"}

Answered(c) == calls[c].outcome.kind = "response"

AnsweredNon2xx(c) ==
    /\ Answered(c)
    /\ ~(calls[c].outcome.status \in 200..299)

Answered2xxJson(c) ==
    /\ Answered(c)
    /\ calls[c].outcome.status \in 200..299
    /\ "json" \in DOMAIN calls[c].outcome.body

\* Reading the JSON document itself, as the backend sent it.
JHas(obj, k) ==
    obj.j = "object" /\ \E i \in 1..Len(obj.members) : obj.members[i][1] = k

JMember(obj, k) ==
    LET i == CHOOSE n \in 1..Len(obj.members) :
                 /\ obj.members[n][1] = k
                 /\ \A m \in (n + 1)..Len(obj.members) : obj.members[m][1] # k
    IN  obj.members[i][2]

Doc(c) == calls[c].outcome.body.json

(***************************************************************************)
(* C1.  When the API key is empty or the chat id is empty, retrieve        *)
(* returns exactly the "not configured" string and uses no HTTP client:    *)
(* the call never opens a client, never posts and never waits.             *)
(***************************************************************************)
C1_NotConfiguredShortCircuit ==
    \A c \in Calls :
        (Started(c) /\ (service.api_key = "" \/ service.chat_id = "")) =>
            /\ Done(c)
            /\ calls[c].result = Returned(PyStr(NOT_CONFIGURED))
            /\ EventsOfKind(c, "client_open") = {}
            /\ EventsOfKind(c, "post") = {}

C1_Witness ==
    \E c \in Calls :
        /\ Done(c)
        /\ service.api_key # ""
        /\ service.chat_id = ""
        /\ calls[c].result = Returned(PyStr(NOT_CONFIGURED))

(***************************************************************************)
(* C2, as claimed.  Every call ends by returning a value, whatever the     *)
(* backend does and also when the awaiting call is cancelled.              *)
(***************************************************************************)
C2_NothingEverRaised ==
    \A c \in Calls : Done(c) => calls[c].result.how = "return"

(***************************************************************************)
(* C2, amended.  Only cancellation reaches the caller: a call that was not *)
(* cancelled ends by returning a value, whatever the status, the body, the *)
(* transport failure or the failure of the client's release; what a call   *)
(* raises is asyncio.CancelledError and the call was cancelled.            *)
(***************************************************************************)
C2_OnlyCancellationPropagates ==
    \A c \in Calls :
        Done(c) =>
            /\ ~WasCancelled(c) => calls[c].result.how = "return"
            /\ calls[c].result.how = "raise" =>
                   /\ calls[c].result.exc.cls = "CancelledError"
                   /\ WasCancelled(c)

C2_Witness ==
    \E c \in Calls :
        /\ Done(c)
        /\ calls[c].outcome.kind = "timeout"
        /\ calls[c].closeOutcome = "error"
        /\ calls[c].result.how = "return"

(***************************************************************************)
(* C3.  Every value retrieve returns is a text string, also when a 2xx     *)
(* body carries choices[0].message.content that is null, a number, a list  *)
(* or an object.                                                           *)
(***************************************************************************)
C3_AlwaysReturnsString ==
    \A c \in Calls :
        (Done(c) /\ calls[c].result.how = "return") =>
            calls[c].result.value.t = "str"

(***************************************************************************)
(* C4.  A configured call that the backend answers with a status outside   *)
(* 2xx, and that then releases its client normally, returns a string that  *)
(* begins with "Error communicating with RAGFlow:"; it is not the          *)
(* "unexpected error" string and carries nothing of the response body.     *)
(***************************************************************************)
C4_StatusErrorString ==
    \A c \in Calls :
        (Done(c) /\ AnsweredNon2xx(c) /\ NormalRelease(c)) =>
            /\ ReturnedString(c)
            /\ StartsWith(calls[c].result.value.s,
                          "Error communicating with RAGFlow:")
            /\ ~StartsWith(calls[c].result.value.s,
                           "An unexpected error occurred")
            /\ calls[c].result.value.s # "denied"
            /\ Cardinality(LogsNamed(c, "ragflow_api_error")) = 1
            /\ \A i \in LogsNamed(c, "ragflow_api_error") :
                   calls[c].trace[i].fields.status_code
                       = calls[c].outcome.status

C4_Witness ==
    \E c \in Calls :
        /\ Done(c)
        /\ Answered(c)
        /\ calls[c].outcome.status = 302
        /\ NormalRelease(c)
        /\ ReturnedString(c)

(***************************************************************************)
(* C5.  A configured call that fails otherwise than by a status (timeout,  *)
(* refused or dropped connection, a 2xx body that is not JSON, a 2xx       *)
(* JSON document of an unexpected shape) and is not cancelled returns a    *)
(* string beginning with "An unexpected error occurred while querying      *)
(* RAGFlow:" and logs it as an unexpected error.                           *)
(***************************************************************************)
FailedOtherwise(c) ==
    \/ calls[c].outcome \in TransportFailures
    \/ /\ Answered(c)
       /\ calls[c].outcome.status \in 200..299
       /\ calls[c].outcome.body \in MalformedBodies

C5_UnexpectedErrorString ==
    \A c \in Calls :
        (Done(c) /\ FailedOtherwise(c) /\ ~WasCancelled(c)) =>
            /\ ReturnedString(c)
            /\ StartsWith(calls[c].result.value.s,
                          "An unexpected error occurred while querying RAGFlow:")
            /\ LogsNamed(c, "ragflow_unexpected_error") # {}
            /\ LogsNamed(c, "ragflow_api_error") = {}

C5_Witness ==
    \E c \in Calls :
        /\ Done(c)
        /\ Answered(c)
        /\ calls[c].outcome.status = 200
        /\ calls[c].outcome.body = [raw |-> "<html>Bad Gateway</html>"]
        /\ ReturnedString(c)

(***************************************************************************)
(* C6.  A configured call answered 2xx with a JSON object in which         *)
(* `choices` is absent or an empty list, and that then releases its client *)
(* normally, returns exactly "No response from RAGFlow." and logs neither  *)
(* the success event nor an error.                                         *)
(***************************************************************************)
NoChoices(c) ==
    /\ Answered2xxJson(c)
    /\ Doc(c).j = "object"
    /\ \/ ~JHas(Doc(c), "choices")
       \/ JMember(Doc(c), "choices") = JArr(<<>>)

C6_NoResponseString ==
    \A c \in Calls :
        (Done(c) /\ NoChoices(c) /\ NormalRelease(c)) =>
            /\ calls[c].result = Returned(PyStr("No response from RAGFlow."))
            /\ LogsNamed(c, "ragflow_retrieval_successful") = {}
            /\ ErrorLogs(c) = {}

C6_Witness ==
    \E c \in Calls :
        /\ Done(c)
        /\ Answered2xxJson(c)
        /\ Doc(c) = Obj1("choices", JArr(<<>>))
        /\ NormalRelease(c)
        /\ calls[c].result.how = "return"

(***************************************************************************)
(* C7.  A configured call answered 2xx with a non-empty `choices` list     *)
(* whose first element is an object, with `message` absent or an object,   *)
(* and that then releases its client normally, returns                     *)
(* choices[0].message.content as parsed, untrimmed, whatever the later     *)
(* choices are; when `message` or `content` is absent it returns "".       *)
(***************************************************************************)
HasChoices(c) ==
    /\ Answered2xxJson(c)
    /\ JHas(Doc(c), "choices")
    /\ JMember(Doc(c), "choices").j = "array"
    /\ Len(JMember(Doc(c), "choices").items) > 0

FirstChoice(c) == JMember(Doc(c), "choices").items[1]

ContentPath(c) ==
    /\ HasChoices(c)
    /\ FirstChoice(c).j = "object"
    /\ JHas(FirstChoice(c), "message") =>
           JMember(FirstChoice(c), "message").j = "object"

ExpectedContent(c) ==
    IF ~JHas(FirstChoice(c), "message") THEN PyStr("")
    ELSE IF ~JHas(JMember(FirstChoice(c), "message"), "content") THEN PyStr("")
    ELSE ToPython(JMember(JMember(FirstChoice(c), "message"), "content"))

C8_ToolPassThrough ==
    \A c \in Calls :
        (Started(c) /\ calls[c].viaTool) =>
            /\ Cardinality(LogsNamed(c, "query_knowledge_base_tool_called")) = 1
            /\ Cardinality(EventsOfKind(c, "retrieve")) = 1
            /\ calls[c].trace[1].kind = "log"
            /\ calls[c].trace[1].event = "query_knowledge_base_tool_called"
            /\ calls[c].trace[1].fields.query = calls[c].query
            /\ calls[c].trace[2] = RetrieveCalled(calls[c].query)
            /\ Done(c) => calls[c].toolResult = calls[c].result

C8_Witness ==
    \E c \in Calls :
        /\ Done(c)
        /\ calls[c].viaTool
        /\ calls[c].toolResult = Returned(PyNone)

(***************************************************************************)
(* C9.  Calls are independent.  The singleton stays as constructed; every  *)
(* request carries the singleton's headers and the call's own query; and   *)
(* two calls, however interleaved, that have the same query, the same      *)
(* backend behaviour and the same release end with the same result.        *)
(***************************************************************************)
C9_CallsIndependent ==
    /\ service = RAGFlowService_init(settings)
    /\ \A c \in Calls :
           \A i \in EventsOfKind(c, "post") :
               /\ calls[c].trace[i].headers = service.headers
               /\ calls[c].trace[i].json.messages[1].content = calls[c].query
    /\ \A c1, c2 \in Calls :
           ( /\ Done(c1) /\ Done(c2)
             /\ calls[c1].query = calls[c2].query
             /\ calls[c1].outcome = calls[c2].outcome
             /\ calls[c1].closeOutcome = calls[c2].closeOutcome )
           => calls[c1].result = calls[c2].result

C9_Witness ==
    \E c1, c2 \in Calls :
        /\ c1 # c2
        /\ Done(c1) /\ Done(c2)
        /\ calls[c1].query = calls[c2].query
        /\ calls[c1].outcome = calls[c2].outcome
        /\ Answered(c1)
        /\ calls[c1].outcome.status = 200
        /\ NormalRelease(c1) /\ NormalRelease(c2)
        /\ calls[c1].result = calls[c2].result

(***************************************************************************)
(* C10.  No retries.  A configured call opens one client and sends one     *)
(* POST, to {base_url}/chats_openai/{chat_id}/chat/completions, and never  *)
(* a second one, whatever comes back; when the call ends the client has    *)
(* been released, once, after the POST.  An unconfigured call sends none.  *)
(***************************************************************************)
C10_OnePostClientReleased ==
    \A c \in Calls :
        Started(c) =>
            /\ Cardinality(EventsOfKind(c, "post"))
                   = (IF service.api_key # "" /\ service.chat_id # ""
                      THEN 1 ELSE 0)
            /\ Cardinality(EventsOfKind(c, "client_open"))
                   = Cardinality(EventsOfKind(c, "post"))
            /\ \A i \in EventsOfKind(c, "post") :
                   /\ calls[c].trace[i].url =
                          service.base_url \o "/chats_openai/"
                              \o service.chat_id \o "/chat/completions"
                   /\ \E o \in EventsOfKind(c, "client_open") : o < i
                   /\ \A k \in EventsOfKind(c, "client_close") : i < k
            /\ Done(c) =>
                   Cardinality(EventsOfKind(c, "client_close"))
                       = Cardinality(EventsOfKind(c, "client_open"))
            /\ ~Done(c) => EventsOfKind(c, "client_close") = {}

C10_Witness ==
    \E c \in Calls :
        /\ Done(c)
        /\ calls[c].outcome.kind = "timeout"
        /\ Cardinality(EventsOfKind(c, "post")) = 1
        /\ Cardinality(EventsOfKind(c, "client_close")) = 1

====
